---------------------------- MODULE Spec2Model ----------------------------
(***************************************************************************)
(* BasicEnvoyExtender.Extend of envoyextensions/extensioncommon:           *)
(* the walk over the indexed xDS resources (listeners, routes, clusters),  *)
(* the scope predicates that decide which resource an extension may patch, *)
(* the three listener sub-orchestrators and the error aggregate.           *)
(*                                                                         *)
(* Strings that the code compares or slices (resource names, SNIs, VIPs,   *)
(* listener names) are sequences of tokens, ":" and "/" being tokens of    *)
(* their own, so that the listener-name prefix is computed as the code     *)
(* computes it.  One behaviour is one call of Extend; a step is one        *)
(* iteration of its loop, taken in any order (Go's map iteration order).   *)
(***************************************************************************)
EXTENDS Integers, Sequences, FiniteSets, TLC

VARIABLES config, canApply, input, resources, pc, idx, todo, calls, errs, reports

vars == <<config, canApply, input, resources, pc, idx, todo, calls, errs, reports>>

-----------------------------------------------------------------------------
(* Bounds *)

\* Filter chains per generated listener.
MaxChains == 2

-----------------------------------------------------------------------------
(* Names of the program *)

ServiceKindTerminatingGateway == "terminating-gateway"
ServiceKindConnectProxy == "connect-proxy"
ServiceKindMeshGateway == "mesh-gateway"
ServiceKindTypical == ""

ListenerType == "Listener"
RouteType == "Route"
ClusterType == "Cluster"

\* The order of the outer loop of Extend.
IndexTypes == <<ListenerType, RouteType, ClusterType>>

LocalAppClusterName == <<"local_app">>
OutboundListenerName == <<"outbound_listener">>
PublicListenerName == <<"public_listener">>

\* The empty string.
EmptyString == <<>>

-----------------------------------------------------------------------------
(* RuntimeConfig *)

IsUpstream(cfg) == cfg.Upstream

MatchesUpstreamServiceSNI(cfg, sni) == sni \in cfg.SNIs

EnvoyID(cfg) == cfg.EnvoyID

UpstreamVIP(cfg) == cfg.VIP

-----------------------------------------------------------------------------
(* The extension: what a patch call may answer *)

\* (patched, err) of a PatchCluster / PatchRoute / PatchFilter call.
Responses == [patched : BOOLEAN, err : BOOLEAN]

\* The resource a patch call returns beside patched = true.
NewForm(msg) == [msg EXCEPT !.gen = @ + 1]

-----------------------------------------------------------------------------
(* Extend: the kind switch and CanApply *)

\* Every kind but the typical service is let through.
KindSupportedAnyProxy(cfg) == cfg.Kind # ServiceKindTypical

KindSupported(cfg) ==
    cfg.Kind \in {ServiceKindTerminatingGateway, ServiceKindConnectProxy}

\* The payload type a type URL is meant to hold.
TagType(indexType) ==
    IF indexType = ListenerType THEN "listener"
    ELSE IF indexType = RouteType THEN "route"
    ELSE "cluster"

\* An entry is handled as a mismatch as soon as its payload is not of the type
\* of the map that holds it.
DispatchByTag(indexType, msg) ==
    IF msg.type = TagType(indexType) THEN msg.type ELSE "default"

\* switch resource := msg.(type): the case an entry of resources.Index[indexType]
\* is handled by.
Dispatch(indexType, msg) ==
    IF msg.type \in {"cluster", "listener", "route"} THEN msg.type ELSE "default"

\* resources.Index[indexType][key] = msg
Store(index, indexType, key, msg) ==
    [index EXCEPT ![indexType] = (key :> msg) @@ index[indexType]]

\* The returned resource is stored without looking at the error.
StoreOnPatchIgnoringErr(index, indexType, key, msg, r) ==
    IF r.patched THEN Store(index, indexType, key, NewForm(msg)) ELSE index

\* What the cluster and route branches do with the answer of the patch call.
StoreOnPatch(index, indexType, key, msg, r) ==
    IF r.err THEN index
    ELSE IF r.patched THEN Store(index, indexType, key, NewForm(msg))
    ELSE index

\* The second `continue` is missing.
ClusterSkippedUpstreamOnly(cfg, nameOrSNI) ==
    IsUpstream(cfg) /\ ~MatchesUpstreamServiceSNI(cfg, nameOrSNI)

\* The two `continue`s of the cluster branch.
ClusterSkipped(cfg, nameOrSNI) ==
    \/ IsUpstream(cfg) /\ ~MatchesUpstreamServiceSNI(cfg, nameOrSNI)
    \/ ~IsUpstream(cfg) /\ nameOrSNI = LocalAppClusterName

\* The second `continue` is missing.
RouteSkippedUpstreamOnly(cfg, nameOrSNI) ==
    IsUpstream(cfg) /\ ~MatchesUpstreamServiceSNI(cfg, nameOrSNI)
                    /\ EnvoyID(cfg) # nameOrSNI

\* The two `continue`s of the route branch.
RouteSkipped(cfg, nameOrSNI) ==
    LET matchesEnvoyID == EnvoyID(cfg) = nameOrSNI
    IN  \/ IsUpstream(cfg) /\ ~MatchesUpstreamServiceSNI(cfg, nameOrSNI) /\ ~matchesEnvoyID
        \/ ~IsUpstream(cfg)

-----------------------------------------------------------------------------
(* Listeners *)

\* The loop over filterChain.Filters, the same in the three sub-orchestrators:
\* resp[<<ci, i>>] is the answer of PatchFilter on filter i of chain ci.
patchFilters(ci, filters, resp) ==
    LET n == Len(filters)
        positions == [i \in 1..n |-> i]
    IN  [Filters |-> [i \in 1..n |->
                        IF resp[<<ci, i>>].err THEN filters[i]
                        ELSE IF resp[<<ci, i>>].patched THEN NewForm(filters[i])
                        ELSE filters[i]],
         patched |-> \E i \in 1..n : ~resp[<<ci, i>>].err /\ resp[<<ci, i>>].patched,
         errs    |-> [j \in 1..Len(SelectSeq(positions, LAMBDA i : resp[<<ci, i>>].err)) |->
                        [chain |-> ci,
                         pos |-> SelectSeq(positions, LAMBDA i : resp[<<ci, i>>].err)[j]]],
         calls   |-> {[chain |-> ci, pos |-> i, arg |-> filters[i], resp |-> resp[<<ci, i>>]]
                        : i \in 1..n}]

\* The loop over l.FilterChains: the chains of cand have their filters patched
\* in place, the others are passed over.
RECURSIVE patchChainsFrom(_, _, _, _)
patchChainsFrom(chains, cand, resp, ci) ==
    IF ci > Len(chains)
    THEN [chains |-> chains, patched |-> FALSE, errs |-> <<>>, calls |-> {}]
    ELSE LET this == IF ci \in cand
                     THEN patchFilters(ci, chains[ci].Filters, resp)
                     ELSE [Filters |-> chains[ci].Filters, patched |-> FALSE,
                           errs |-> <<>>, calls |-> {}]
             rest == patchChainsFrom(chains, cand, resp, ci + 1)
         IN  [chains  |-> [rest.chains EXCEPT ![ci].Filters = this.Filters],
              patched |-> this.patched \/ rest.patched,
              errs    |-> this.errs \o rest.errs,
              calls   |-> this.calls \cup rest.calls]

\* (l, patched, err) of a listener sub-orchestrator; l is the listener as the
\* in-place assignments to filterChain.Filters leave it; panic: a nil
\* dereference ended the call.
ListenerResult(l, res, panic) ==
    [l |-> [l EXCEPT !.FilterChains = res.chains], patched |-> res.patched,
     errs |-> res.errs, calls |-> res.calls, panic |-> panic]

Untouched(l) ==
    [l |-> l, patched |-> FALSE, errs |-> <<>>, calls |-> {}, panic |-> FALSE]

\* The last server name instead of the first.
getSNILast(chain) ==
    IF chain.FilterChainMatch.isNil THEN EmptyString
    ELSE IF Len(chain.FilterChainMatch.ServerNames) = 0 THEN EmptyString
    ELSE chain.FilterChainMatch.ServerNames[Len(chain.FilterChainMatch.ServerNames)]

getSNI(chain) ==
    IF chain.FilterChainMatch.isNil THEN EmptyString
    ELSE IF Len(chain.FilterChainMatch.ServerNames) = 0 THEN EmptyString
    ELSE chain.FilterChainMatch.ServerNames[1]

\* Reads filterChain.FilterChainMatch.PrefixRanges: the caller has checked
\* that FilterChainMatch is not nil, or the read is a nil dereference.
filterChainTProxyMatch(vip, chain) ==
    \E j \in 1..Len(chain.FilterChainMatch.PrefixRanges) :
        vip = chain.FilterChainMatch.PrefixRanges[j]

\* The chains of a terminating gateway's listener whose filters are patched.
TerminatingGatewayCandidates(cfg, chains) ==
    {ci \in 1..Len(chains) :
        /\ getSNI(chains[ci]) # EmptyString
        /\ MatchesUpstreamServiceSNI(cfg, getSNI(chains[ci]))}

patchTerminatingGatewayListener(cfg, l, resp) ==
    IF ~IsUpstream(cfg) THEN Untouched(l)
    ELSE ListenerResult(l,
            patchChainsFrom(l.FilterChains,
                            TerminatingGatewayCandidates(cfg, l.FilterChains), resp, 1),
            FALSE)

\* The loop of patchTProxyListener stops at the first chain whose
\* FilterChainMatch is nil: filterChainTProxyMatch dereferences it.
patchTProxyListener(cfg, l, resp) ==
    LET vip == UpstreamVIP(cfg)
        chains == l.FilterChains
        nils == {ci \in 1..Len(chains) : chains[ci].FilterChainMatch.isNil}
        stop == IF nils = {} THEN Len(chains) + 1
                ELSE CHOOSE ci \in nils : \A cj \in nils : ci <= cj
        cand == {ci \in 1..(stop - 1) : filterChainTProxyMatch(vip, chains[ci])}
    IN  ListenerResult(l, patchChainsFrom(chains, cand, resp, 1), nils # {})

\* strings.IndexByte(name, ':'), 0 for Go's -1.
IndexByteColon(name) ==
    IF \E i \in 1..Len(name) : name[i] = ":"
    THEN CHOOSE i \in 1..Len(name) :
            /\ name[i] = ":"
            /\ \A j \in 1..(i - 1) : name[j] # ":"
    ELSE 0

\* The whole name is taken when it holds no colon.
ListenerEnvoyIDWholeName(name) ==
    IF IndexByteColon(name) # 0 THEN SubSeq(name, 1, IndexByteColon(name) - 1)
    ELSE name

\* envoyID of patchConnectProxyListener: l.Name[:i], "" without a colon.
ListenerEnvoyID(name) ==
    IF IndexByteColon(name) # 0 THEN SubSeq(name, 1, IndexByteColon(name) - 1)
    ELSE EmptyString

patchConnectProxyListener(cfg, l, resp) ==
    LET envoyID == ListenerEnvoyID(l.Name)
    IN  IF IsUpstream(cfg) /\ envoyID = OutboundListenerName
        THEN patchTProxyListener(cfg, l, resp)
        ELSE IF IsUpstream(cfg) /\ envoyID # EnvoyID(cfg) THEN Untouched(l)
        ELSE IF ~IsUpstream(cfg) /\ envoyID # PublicListenerName THEN Untouched(l)
        ELSE ListenerResult(l,
                patchChainsFrom(l.FilterChains, 1..Len(l.FilterChains), resp, 1),
                FALSE)

patchListener(cfg, l, resp) ==
    IF cfg.Kind = ServiceKindTerminatingGateway
    THEN patchTerminatingGatewayListener(cfg, l, resp)
    ELSE IF cfg.Kind = ServiceKindConnectProxy
    THEN patchConnectProxyListener(cfg, l, resp)
    ELSE Untouched(l)

\* The positions <<chain, filter>> of a listener.
FilterPositions(l) ==
    UNION {{<<ci, i>> : i \in 1..Len(l.FilterChains[ci].Filters)}
            : ci \in 1..Len(l.FilterChains)}

-----------------------------------------------------------------------------
(* The inputs of a call *)

Cluster(name) == [type |-> "cluster", name |-> name, gen |-> 0]

Route(name) == [type |-> "route", name |-> name, gen |-> 0]

\* A payload that is neither a listener, a route nor a cluster.
Endpoints(name) == [type |-> "endpoints", name |-> name, gen |-> 0]

Filter(name) == [name |-> name, gen |-> 0]

Match(serverNames, prefixRanges) ==
    [isNil |-> FALSE, ServerNames |-> serverNames, PrefixRanges |-> prefixRanges]

\* FilterChainMatch = nil
NilMatch == [isNil |-> TRUE, ServerNames |-> <<>>, PrefixRanges |-> <<>>]

Chain(match, filters) == [FilterChainMatch |-> match, Filters |-> filters]

Listener(name, chains) == [type |-> "listener", Name |-> name, FilterChains |-> chains]

DbSNI == <<"db.sni">>
OtherSNI == <<"other.sni">>
DbEnvoyID == <<"db">>
DbVIP == <<"10.0.0.5">>
DbVIPWithLength == <<"10.0.0.5", "/", "32">>
OtherVIP == <<"10.0.0.9">>

ChainPool ==
    { Chain(Match(<<DbSNI>>, <<DbVIP>>), <<Filter("http")>>),
      Chain(Match(<<OtherSNI, DbSNI>>, <<DbVIPWithLength>>), <<Filter("tcp")>>),
      Chain(Match(<<>>, <<OtherVIP, DbVIP>>), <<Filter("rbac")>>),
      Chain(NilMatch, <<Filter("tcp")>>) }

ListenerNames ==
    { <<"outbound_listener", ":", "127.0.0.1", ":", "15001">>,
      <<"public_listener", ":", "0.0.0.0", ":", "20000">>,
      <<"db", ":", "127.0.0.1", ":", "9191">>,
      <<"db">> }

ListenerPool ==
    {Listener(n, cs) : n \in ListenerNames,
                       cs \in UNION {[1..k -> ChainPool] : k \in 0..MaxChains}}

Clusters ==
    (LocalAppClusterName :> Cluster(LocalAppClusterName))
    @@ (DbSNI :> Cluster(DbSNI)) @@ (OtherSNI :> Cluster(OtherSNI))

Routes ==
    (DbSNI :> Route(DbSNI)) @@ (DbEnvoyID :> Route(DbEnvoyID))
    @@ (OtherSNI :> Route(OtherSNI))

\* The index as xdscommon.IndexResources builds it: every payload under the
\* type URL of its own type.  Every listener of the pool beside one cluster,
\* and a listener of each name beside all routes and clusters.
WellTaggedSets ==
    {[Listener |-> (l.Name :> l),
      Route    |-> <<>>,
      Cluster  |-> (DbSNI :> Cluster(DbSNI))] : l \in ListenerPool}
    \cup
    {[Listener |-> (n :> Listener(n, <<Chain(Match(<<DbSNI>>, <<DbVIP>>),
                                             <<Filter("http"), Filter("tcp")>>)>>)),
      Route    |-> Routes,
      Cluster  |-> Clusters] : n \in ListenerNames}

\* An index built by hand (its fields are exported): payloads under the type
\* URL of another type, and a payload of a fourth type.
MistaggedSets ==
    { [Listener |-> (DbSNI :> Cluster(DbSNI)) @@ (<<"eds">> :> Endpoints(DbSNI)),
       Route    |-> (DbEnvoyID :> Route(DbEnvoyID)),
       Cluster  |-> (OtherSNI :> Cluster(OtherSNI))],
      [Listener |-> (DbEnvoyID :> Route(DbEnvoyID)),
       Route    |-> (DbSNI :> Cluster(DbSNI)),
       Cluster  |-> (<<"public_listener", ":", "0.0.0.0", ":", "20000">> :>
                        Listener(<<"public_listener", ":", "0.0.0.0", ":", "20000">>,
                                 <<Chain(Match(<<DbSNI>>, <<DbVIP>>), <<Filter("tcp")>>)>>))
                    @@ (<<"eds">> :> Endpoints(DbSNI))] }

ResourceSets == WellTaggedSets \cup MistaggedSets

Configs ==
    [Kind : {ServiceKindTerminatingGateway, ServiceKindConnectProxy,
             ServiceKindMeshGateway, ServiceKindTypical},
     Upstream : BOOLEAN, SNIs : {{DbSNI}}, EnvoyID : {DbEnvoyID}, VIP : {DbVIP}]

-----------------------------------------------------------------------------
(* Extend *)

Init ==
    /\ config \in Configs
    /\ canApply \in BOOLEAN
    /\ input \in ResourceSets
    /\ resources = input
    /\ pc = "start"
    /\ idx = 0
    /\ todo = {}
    /\ calls = {}
    /\ errs = <<>>
    /\ reports = {}

\* The default case of the switch on config.Kind.
ReturnUnsupportedKind ==
    /\ pc = "start"
    /\ ~KindSupported(config)
    /\ pc' = "done"
    /\ UNCHANGED <<config, canApply, input, resources, idx, todo, calls, errs, reports>>

ReturnCannotApply ==
    /\ pc = "start"
    /\ KindSupported(config)
    /\ ~canApply
    /\ pc' = "done"
    /\ UNCHANGED <<config, canApply, input, resources, idx, todo, calls, errs, reports>>

\* Entering the loop over a type URL: its map is ranged over.
EnterIndexType ==
    /\ \/ pc = "start" /\ KindSupported(config) /\ canApply
       \/ pc = "loop" /\ todo = {} /\ idx < Len(IndexTypes)
    /\ pc' = "loop"
    /\ idx' = idx + 1
    /\ todo' = DOMAIN resources[IndexTypes[idx + 1]]
    /\ UNCHANGED <<config, canApply, input, resources, calls, errs, reports>>

Current == resources[IndexTypes[idx]]

\* case *envoy_cluster_v3.Cluster
HandleCluster ==
    /\ pc = "loop"
    /\ \E nameOrSNI \in todo :
        /\ Dispatch(IndexTypes[idx], Current[nameOrSNI]) = "cluster"
        /\ todo' = todo \ {nameOrSNI}
        /\ IF ClusterSkipped(config, nameOrSNI)
           THEN UNCHANGED <<resources, calls, errs>>
           ELSE \E r \in Responses :
                /\ calls' = calls \cup
                     {[fn |-> "PatchCluster", indexType |-> IndexTypes[idx],
                       key |-> nameOrSNI, chain |-> 0, pos |-> 0,
                       arg |-> Current[nameOrSNI], resp |-> r]}
                /\ errs' = IF r.err
                           THEN Append(errs, [msg |-> "error patching cluster",
                                              key |-> nameOrSNI, inner |-> <<>>])
                           ELSE errs
                /\ resources' = StoreOnPatch(resources, ClusterType, nameOrSNI,
                                             Current[nameOrSNI], r)
    /\ UNCHANGED <<config, canApply, input, pc, idx, reports>>

\* case *envoy_route_v3.RouteConfiguration
HandleRoute ==
    /\ pc = "loop"
    /\ \E nameOrSNI \in todo :
        /\ Dispatch(IndexTypes[idx], Current[nameOrSNI]) = "route"
        /\ todo' = todo \ {nameOrSNI}
        /\ IF RouteSkipped(config, nameOrSNI)
           THEN UNCHANGED <<resources, calls, errs>>
           ELSE \E r \in Responses :
                /\ calls' = calls \cup
                     {[fn |-> "PatchRoute", indexType |-> IndexTypes[idx],
                       key |-> nameOrSNI, chain |-> 0, pos |-> 0,
                       arg |-> Current[nameOrSNI], resp |-> r]}
                /\ errs' = IF r.err
                           THEN Append(errs, [msg |-> "error patching route",
                                              key |-> nameOrSNI, inner |-> <<>>])
                           ELSE errs
                /\ resources' = StoreOnPatch(resources, RouteType, nameOrSNI,
                                             Current[nameOrSNI], r)
    /\ UNCHANGED <<config, canApply, input, pc, idx, reports>>

\* The index after the listener branch: the entry ranged over is the listener
\* the sub-orchestrator assigned to (the map holds a pointer), and with no
\* error and patched = true the same listener is stored under ListenerType.
StoreListener(index, indexType, key, res) ==
    LET inPlace == [index EXCEPT ![indexType][key] = res.l]
    IN  IF res.errs # <<>> THEN inPlace
        ELSE IF res.patched THEN Store(inPlace, ListenerType, key, res.l)
        ELSE inPlace

\* case *envoy_listener_v3.Listener
HandleListener ==
    /\ pc = "loop"
    /\ \E nameOrSNI \in todo :
        /\ Dispatch(IndexTypes[idx], Current[nameOrSNI]) = "listener"
        /\ \E resp \in [FilterPositions(Current[nameOrSNI]) -> Responses] :
            LET res == patchListener(config, Current[nameOrSNI], resp)
            IN  /\ calls' = calls \cup
                      {[fn |-> "PatchFilter", indexType |-> IndexTypes[idx],
                        key |-> nameOrSNI, chain |-> c.chain, pos |-> c.pos,
                        arg |-> c.arg, resp |-> c.resp] : c \in res.calls}
                /\ IF res.panic
                   THEN /\ pc' = "panic"
                        /\ resources' = [resources EXCEPT
                                            ![IndexTypes[idx]][nameOrSNI] = res.l]
                        /\ UNCHANGED <<todo, errs, reports>>
                   ELSE /\ pc' = pc
                        /\ todo' = todo \ {nameOrSNI}
                        /\ resources' = StoreListener(resources, IndexTypes[idx],
                                                      nameOrSNI, res)
                        /\ errs' = IF res.errs # <<>>
                                   THEN Append(errs, [msg |-> "error patching listener",
                                                      key |-> nameOrSNI,
                                                      inner |-> res.errs])
                                   ELSE errs
                        /\ reports' = reports \cup
                              {[indexType |-> IndexTypes[idx], key |-> nameOrSNI,
                                patched |-> res.patched]}
    /\ UNCHANGED <<config, canApply, input, idx>>

\* default: the payload is of no type of the switch.
HandleUnsupported ==
    /\ pc = "loop"
    /\ \E nameOrSNI \in todo :
        /\ Dispatch(IndexTypes[idx], Current[nameOrSNI]) = "default"
        /\ todo' = todo \ {nameOrSNI}
        /\ errs' = Append(errs, [msg |-> "unsupported type was skipped",
                                 key |-> nameOrSNI, inner |-> <<>>])
    /\ UNCHANGED <<config, canApply, input, resources, pc, idx, calls, reports>>

\* return resources, resultErr
Return ==
    /\ pc = "loop"
    /\ todo = {}
    /\ idx = Len(IndexTypes)
    /\ pc' = "done"
    /\ UNCHANGED <<config, canApply, input, resources, idx, todo, calls, errs, reports>>

Next ==
    \/ ReturnUnsupportedKind
    \/ ReturnCannotApply
    \/ EnterIndexType
    \/ HandleCluster
    \/ HandleRoute
    \/ HandleListener
    \/ HandleUnsupported
    \/ Return

Spec == Init /\ [][Next]_vars

-----------------------------------------------------------------------------
(* Vocabulary of the properties *)

PayloadTypes == {"cluster", "listener", "route"}

\* Extend was entered with a supported kind and an extension that can apply.
Applying == /\ config.Kind \in {ServiceKindTerminatingGateway, ServiceKindConnectProxy}
            /\ canApply

Entries(index) ==
    UNION {{<<it, k>> : k \in DOMAIN index[it]}
            : it \in {ListenerType, RouteType, ClusterType}}

WellTagged(index) == \A e \in Entries(index) : index[e[1]][e[2]].type = TagType(e[1])

\* The resource, or the filter, a patch call was made on, as the index holds it now.
Held(c) ==
    IF c.fn = "PatchFilter"
    THEN resources[c.indexType][c.key].FilterChains[c.chain].Filters[c.pos]
    ELSE resources[c.indexType][c.key]

ErrorOf(fn) ==
    IF fn = "PatchFilter" THEN "error patching listener"
    ELSE IF fn = "PatchCluster" THEN "error patching cluster"
    ELSE "error patching route"

\* The aggregate holds the failure of call c.
Aggregated(c) ==
    \E j \in 1..Len(errs) :
        /\ errs[j].msg = ErrorOf(c.fn)
        /\ errs[j].key = c.key
        /\ c.fn = "PatchFilter" =>
              \E m \in 1..Len(errs[j].inner) :
                  errs[j].inner[m] = [chain |-> c.chain, pos |-> c.pos]

Succeeded(c) == ~c.resp.err /\ c.resp.patched

FilterCalls(indexType, key) ==
    {c \in calls : c.fn = "PatchFilter" /\ c.indexType = indexType /\ c.key = key}

\* Every filter of chain ci of listener l was handed to PatchFilter.
Offered(indexType, key, l, ci) ==
    \A i \in 1..Len(l.FilterChains[ci].Filters) :
        \E c \in FilterCalls(indexType, key) :
            c.chain = ci /\ c.pos = i /\ c.arg = l.FilterChains[ci].Filters[i]

\* The part of a listener name before its first colon, empty without a colon.
PrefixBeforeColon(name) ==
    LET p == CHOOSE q \in 0..Len(name) :
                /\ \A j \in 1..q : name[j] # ":"
                /\ q = Len(name) \/ name[q + 1] = ":"
    IN  IF p = Len(name) THEN <<>> ELSE [j \in 1..p |-> name[j]]

\* The address-prefix match set of the chain holds the VIP itself.
HoldsVIP(chain) ==
    /\ ~chain.FilterChainMatch.isNil
    /\ \E j \in DOMAIN chain.FilterChainMatch.PrefixRanges :
          chain.FilterChainMatch.PrefixRanges[j] = config.VIP

\* The first declared server name of the chain is not empty and is an SNI of
\* the upstream.
FirstServerNameMatches(chain) ==
    /\ ~chain.FilterChainMatch.isNil
    /\ chain.FilterChainMatch.ServerNames # <<>>
    /\ Head(chain.FilterChainMatch.ServerNames) # <<>>
    /\ Head(chain.FilterChainMatch.ServerNames) \in config.SNIs

-----------------------------------------------------------------------------
(* C1 *)

\* C1: with a service kind that is neither terminating-gateway nor
\* connect-proxy, or with CanApply false, Extend returns the resource set with
\* every entry unchanged and a nil error, and makes no patch call.
C1_PassThrough ==
    (~(config.Kind \in {ServiceKindTerminatingGateway, ServiceKindConnectProxy})
        \/ ~canApply)
    => /\ resources = input
       /\ errs = <<>>
       /\ calls = {}
       /\ pc \in {"start", "done"}

C1_Witness ==
    /\ pc = "done"
    /\ config.Kind = ServiceKindMeshGateway
    /\ canApply
    /\ DOMAIN input.Cluster # {}
    /\ DOMAIN input.Listener # {}

-----------------------------------------------------------------------------
(* C2 *)

\* C2: with every payload under its own kind tag, when Extend returns, each
\* resource (cluster, route, filter of a listener) whose patch call returned an
\* error is held in its original form and its failure is in the aggregate
\* error, and each resource whose patch call returned changed = true with no
\* error is held in the returned form, whatever the other calls of the pass
\* returned.
C2_FailedKeepsOriginalOthersPatched ==
    (pc = "done" /\ WellTagged(input)) =>
        \A c \in calls :
            /\ c.resp.err => (Held(c) = c.arg /\ Aggregated(c) /\ errs # <<>>)
            /\ Succeeded(c) => Held(c) = NewForm(c.arg)
            /\ c.fn # "PatchFilter" => c.arg = input[c.indexType][c.key]

C2_Witness ==
    /\ pc = "done"
    /\ WellTagged(input)
    /\ \E c1 \in calls, c2 \in calls :
          /\ c1.fn = "PatchCluster" /\ c1.resp.err /\ c1.resp.patched
          /\ c2.fn = "PatchRoute" /\ Succeeded(c2)
    /\ \E c3 \in calls, c4 \in calls :
          /\ c3.fn = "PatchFilter" /\ c3.resp.err
          /\ c4.fn = "PatchFilter" /\ Succeeded(c4)
          /\ c3.key = c4.key

-----------------------------------------------------------------------------
(* C3 *)

\* C3: PatchCluster is invoked on the local-service cluster only under a
\* downstream-scoped configuration, and on any other cluster only under an
\* upstream-scoped one.
C3_ClusterScopeByDirection ==
    WellTagged(input) =>
        \A c \in calls :
            c.fn = "PatchCluster" =>
                IF c.key = LocalAppClusterName THEN ~config.Upstream
                ELSE config.Upstream

-----------------------------------------------------------------------------
(* C4 *)

\* C4: in the transparent-proxy sub-case (connect-proxy, upstream-scoped,
\* listener prefix equal to the outbound-listener name) PatchFilter is offered
\* exactly the filters of the chains whose address-prefix match set holds the
\* VIP itself, every other chain, one with no match clause included, keeps its
\* filters, and the pass does not fail fatally.
C4_TProxyExactVIPNoFatal ==
    (Applying /\ config.Kind = ServiceKindConnectProxy /\ config.Upstream) =>
        \A k \in DOMAIN input.Listener :
            (/\ input.Listener[k].type = "listener"
             /\ PrefixBeforeColon(input.Listener[k].Name) = OutboundListenerName) =>
                /\ pc # "panic"
                /\ \A c \in FilterCalls(ListenerType, k) :
                      HoldsVIP(input.Listener[k].FilterChains[c.chain])
                /\ \A ci \in DOMAIN input.Listener[k].FilterChains :
                      IF HoldsVIP(input.Listener[k].FilterChains[ci])
                      THEN pc = "done" => Offered(ListenerType, k, input.Listener[k], ci)
                      ELSE resources.Listener[k].FilterChains[ci] =
                               input.Listener[k].FilterChains[ci]

-----------------------------------------------------------------------------
(* C5 *)

\* C5: a listener whose patching produced an error has its entry, the filter
\* sequence of every chain included, equal to the entry before the call.
C5_ListenerErrorLeavesEntry ==
    WellTagged(input) =>
        \A j \in 1..Len(errs) :
            errs[j].msg = "error patching listener" =>
                resources.Listener[errs[j].key] = input.Listener[errs[j].key]

-----------------------------------------------------------------------------
(* C6 *)

\* C6: for a terminating gateway, PatchFilter is offered only filters of chains
\* of an upstream-scoped pass whose first declared server name is not empty
\* and satisfies MatchesUpstreamServiceSNI; a patched listener had every filter
\* of those chains offered and keeps the filters of the others; and it is
\* reported changed exactly when an offered filter was returned changed with no
\* error.
C6_TerminatingGatewayChains ==
    config.Kind = ServiceKindTerminatingGateway =>
        /\ \A c \in calls :
              c.fn = "PatchFilter" =>
                  /\ config.Upstream
                  /\ FirstServerNameMatches(input[c.indexType][c.key].FilterChains[c.chain])
        /\ \A rp \in reports :
              LET before == input[rp.indexType][rp.key]
                  after == resources[rp.indexType][rp.key]
              IN  /\ \A ci \in DOMAIN before.FilterChains :
                        IF config.Upstream /\ FirstServerNameMatches(before.FilterChains[ci])
                        THEN Offered(rp.indexType, rp.key, before, ci)
                        ELSE after.FilterChains[ci] = before.FilterChains[ci]
                  /\ rp.patched <=>
                        \E c \in FilterCalls(rp.indexType, rp.key) : Succeeded(c)

C6_Witness ==
    /\ pc = "done"
    /\ config.Kind = ServiceKindTerminatingGateway
    /\ config.Upstream
    /\ \E rp \in reports :
          /\ rp.patched
          /\ Len(input[rp.indexType][rp.key].FilterChains) = 2
          /\ FirstServerNameMatches(input[rp.indexType][rp.key].FilterChains[1])
          /\ ~FirstServerNameMatches(input[rp.indexType][rp.key].FilterChains[2])
          /\ Len(input[rp.indexType][rp.key].FilterChains[2].FilterChainMatch.ServerNames) = 2

-----------------------------------------------------------------------------
(* C7 *)

\* The cluster matching predicate fails.
ClusterPredicateFails(k) ==
    \/ config.Upstream /\ k \notin config.SNIs
    \/ ~config.Upstream /\ k = LocalAppClusterName

-----------------------------------------------------------------------------
(* C8 *)

\* The route matching predicate holds.
RoutePredicateHolds(k) ==
    config.Upstream /\ (k \in config.SNIs \/ k = config.EnvoyID)

\* C8: PatchRoute is invoked on a route exactly when the configuration is
\* upstream-scoped and the route's identity satisfies MatchesUpstreamServiceSNI
\* or equals the Envoy ID; downstream-scoped, no PatchRoute call is made and
\* every route entry stays as it was.
C8_RoutePredicate ==
    /\ \A c \in calls : c.fn = "PatchRoute" => RoutePredicateHolds(c.key)
    /\ (pc = "done" /\ Applying) =>
          \A k \in DOMAIN input.Route :
              (input.Route[k].type = "route" /\ RoutePredicateHolds(k)) =>
                  \E c \in calls :
                      c.fn = "PatchRoute" /\ c.key = k /\ c.indexType = RouteType
    /\ ~config.Upstream =>
          \A k \in DOMAIN input.Route : resources.Route[k] = input.Route[k]

C8_Witness ==
    /\ pc = "done"
    /\ Applying
    /\ config.Upstream
    /\ \E c \in calls : c.fn = "PatchRoute" /\ c.key = config.EnvoyID /\ Succeeded(c)
    /\ \E c \in calls : c.fn = "PatchRoute" /\ c.key \in config.SNIs
    /\ \E k \in DOMAIN input.Route :
          ~RoutePredicateHolds(k) /\ ~\E c \in calls : c.fn = "PatchRoute" /\ c.key = k

-----------------------------------------------------------------------------
(* C9 *)

Delegated(l) ==
    config.Upstream /\ PrefixBeforeColon(l.Name) = OutboundListenerName

Eligible(l) ==
    IF config.Upstream THEN PrefixBeforeColon(l.Name) = config.EnvoyID
    ELSE PrefixBeforeColon(l.Name) = PublicListenerName

\* C9: for a connect proxy the part of the listener name before its first
\* colon decides: upstream-scoped and equal to the outbound-listener name, the
\* transparent-proxy sub-case takes over (only chains holding the VIP are
\* offered); otherwise the listener is eligible only when that part is the
\* Envoy ID (upstream-scoped) or the public-listener name (downstream-scoped).
\* An ineligible listener gets no PatchFilter call and is reported unchanged;
\* an eligible one has PatchFilter called on every filter of every chain.
C9_ConnectProxyListenerPrefix ==
    config.Kind = ServiceKindConnectProxy =>
        /\ \A c \in calls :
              c.fn = "PatchFilter" =>
                  LET l == input[c.indexType][c.key]
                  IN  IF Delegated(l) THEN HoldsVIP(l.FilterChains[c.chain])
                      ELSE Eligible(l)
        /\ \A rp \in reports :
              LET l == input[rp.indexType][rp.key]
              IN  /\ (~Delegated(l) /\ ~Eligible(l)) =>
                        /\ ~rp.patched
                        /\ FilterCalls(rp.indexType, rp.key) = {}
                        /\ resources[rp.indexType][rp.key] = l
                  /\ (~Delegated(l) /\ Eligible(l)) =>
                        \A ci \in DOMAIN l.FilterChains :
                            Offered(rp.indexType, rp.key, l, ci)

C9_Witness ==
    /\ pc = "done"
    /\ config.Kind = ServiceKindConnectProxy
    /\ config.Upstream
    /\ \E rp \in reports :
          LET l == input[rp.indexType][rp.key]
          IN  /\ Eligible(l) /\ ~Delegated(l)
              /\ Len(l.FilterChains) = 2
              /\ l.FilterChains[2].FilterChainMatch.isNil
              /\ Cardinality(FilterCalls(rp.indexType, rp.key)) = 2
              /\ rp.patched

-----------------------------------------------------------------------------
(* C10 *)

UnsupportedError(k) == [msg |-> "unsupported type was skipped", key |-> k, inner |-> <<>>]

\* C10 as stated: when Extend returns, every resource held under a kind tag
\* that disagrees with its payload's type has an error in the aggregate and
\* was not patched.
C10_MismatchReported ==
    (pc = "done" /\ Applying) =>
        \A e \in Entries(input) :
            input[e[1]][e[2]].type # TagType(e[1]) =>
                /\ \E j \in 1..Len(errs) : errs[j].key = e[2]
                /\ ~\E c \in calls : c.indexType = e[1] /\ c.key = e[2]

\* C10 as amended: a step of the loop on a resource whose payload is none of
\* listener, route and cluster appends an "unsupported type" error for it,
\* leaves the index as it is and goes on; a step on a listener, route or
\* cluster payload, under whatever kind tag, appends no such error.
C10_OnlyUnsupportedPayloadReported ==
    [][\A k \in todo :
          (pc = "loop" /\ todo' = todo \ {k}) =>
              IF Current[k].type \notin PayloadTypes
              THEN /\ errs' = Append(errs, UnsupportedError(k))
                   /\ resources' = resources
                   /\ calls' = calls
                   /\ pc' = "loop"
              ELSE \A j \in 1..Len(errs') :
                      errs'[j].msg = "unsupported type was skipped" =>
                          j <= Len(errs) /\ errs'[j] = errs[j]]_vars

C10_Witness ==
    /\ pc = "done"
    /\ \E j \in 1..Len(errs) : errs[j].msg = "unsupported type was skipped"
    /\ \E c \in calls :
          /\ c.fn = "PatchCluster"
          /\ c.indexType = ListenerType
          /\ Succeeded(c)
    /\ Len(errs) = 1

=============================================================================
